---- MODULE Spec2Model ----
(***************************************************************************)
(* Model of fai.py: a batch pipeline that lists the images of a directory, *)
(* encodes them, sends each to an inference service from a bounded thread  *)
(* pool (process_image), normalizes the JSON answer (fill_missing_fields   *)
(* and the stripping of height), optionally saves a face crop, and gathers *)
(* the results in output_data.                                             *)
(*                                                                         *)
(* Text is modelled as a sequence of tokens (its concatenation is the      *)
(* string); a JSON value is a record [t |-> type tag, v |-> tokens].       *)
(***************************************************************************)
EXTENDS Integers, Sequences, FiniteSets, TLC

VARIABLES
    pc,               \* position of main
    dir_entries,      \* os.listdir(args.input_dir), in listing order
    max_workers,      \* args.max_workers
    face_dir,         \* TRUE iff args.face_dir is set
    image_files,      \* main: image_files
    encoded_results,  \* main: encoded_results
    future,           \* submitted filename -> state of its future
    response,         \* filename -> what the inference call gave its worker
    crop_env,         \* filename -> how the file system served its crop step
    ret,              \* filename -> what process_image returned
    output_data,      \* main: output_data
    face_crops,       \* crop files written: records [path, source]
    processed,        \* the count printed by the summary line, -1 before it
    encoded,          \* filename -> "ok" or "fail", the end of its encode_image
    submits,          \* filename -> number of executor.submit calls for it
    requests,         \* filename -> number of inference requests issued
    output_format,    \* args.output_format as read at line 125, "" before
    output_file,      \* what was written to args.output_path
    message,          \* the line printed by the export step, "" before
    raw,              \* normalizer harness: the raw extraction
    norm,             \* normalizer harness: the record after napplied passes
    prev,             \* normalizer harness: the record one pass earlier
    napplied,         \* normalizer harness: number of passes applied
    nexc              \* normalizer harness: exception raised by the last pass

vars == <<pc, dir_entries, max_workers, face_dir, image_files, encoded_results,
          future, response, crop_env, ret, output_data, face_crops, processed,
          encoded, submits, requests, output_format, output_file, message,
          raw, norm, prev, napplied, nexc>>

mainVars == <<pc, dir_entries, max_workers, face_dir, image_files,
              encoded_results, future, response, crop_env, ret, output_data,
              face_crops, processed, encoded, submits, requests, output_format,
              output_file, message>>

exportVars == <<output_format, output_file, message>>

normVars == <<raw, norm, prev, napplied, nexc>>

----------------------------------------------------------------------------
(* Bounds *)

MaxStrLen == 2      \* longest text value, in tokens
MaxPresent == 2     \* most fields present in a raw extraction of the harness
MaxFiles == 2       \* most entries of the input directory
MaxWorkers == 2     \* largest args.max_workers

----------------------------------------------------------------------------
(* JSON values *)

DQUOTE == "\""
SP == " "

Str(toks) == [t |-> "str", v |-> toks]
List(toks) == [t |-> "list", v |-> toks]
None == [t |-> "null", v |-> <<>>]
EmptyDict == [t |-> "dict", v |-> <<>>]
Num(tok) == [t |-> "num", v |-> <<tok>>]
Bool(tok) == [t |-> "bool", v |-> <<tok>>]

NA == Str(<<"na">>)

\* The 13 properties of the response schema
FIELDS ==
    {"ID_type", "dl_number", "expiry", "name", "dob", "address", "sex",
     "height", "weight", "hair", "eyes", "altered", "face_bbox"}

\* The list a value is compared against in fill_missing_fields
SENTINELS ==
    {None, Str(<<>>), List(<<>>), EmptyDict,
     Str(<<"none (not provided on the DL)">>), Str(<<"Not available">>),
     Str(<<"N/A">>), Str(<<"NULL">>)}

EmptyRec == [k \in {} |-> NA]

\* fill_missing_fields with "NULL" left out of the list
fill_missing_fields_noNULL(data) ==
    [key \in DOMAIN data |->
        IF key \notin DOMAIN data \/ data[key] \in (SENTINELS \ {Str(<<"NULL">>)})
        THEN NA ELSE data[key]]

\* for key in data: if key not in data or data[key] in [...]: data[key] = "na"
fill_missing_fields(data) ==
    [key \in DOMAIN data |->
        IF key \notin DOMAIN data \/ data[key] \in SENTINELS
        THEN NA ELSE data[key]]

\* str.replace("\"", "")
RemoveQuotes(s) == SelectSeq(s, LAMBDA c : c # DQUOTE)

RECURSIVE LStrip(_)
LStrip(s) == IF s # <<>> /\ Head(s) = SP THEN LStrip(Tail(s)) ELSE s

RECURSIVE RStrip(_)
RStrip(s) ==
    IF s # <<>> /\ s[Len(s)] = SP THEN RStrip(SubSeq(s, 1, Len(s) - 1)) ELSE s

\* str.strip()
Strip(s) == RStrip(LStrip(s))

\* parsed["height"].replace("\"", "").strip(); a value that is not text has
\* no replace method and the call raises AttributeError
StripHeight(parsed) ==
    IF "height" \in DOMAIN parsed
    THEN IF parsed["height"].t = "str"
         THEN [exc |-> "",
               parsed |-> [parsed EXCEPT
                   !["height"] = Str(Strip(RemoveQuotes(parsed["height"].v)))]]
         ELSE [exc |-> "AttributeError", parsed |-> parsed]
    ELSE [exc |-> "", parsed |-> parsed]

\* The normalization step of process_image
Normalize(data) == StripHeight(fill_missing_fields(data))

----------------------------------------------------------------------------
(* Normalizer harness: the normalization step applied to a raw extraction, *)
(* and applied again to its own output                                     *)

Alphabet == {DQUOTE, SP, "N/A", "x"}

SeqsUpTo(n) == UNION {[1..m -> Alphabet] : m \in 0..n}

TextValues ==
    {Str(s) : s \in SeqsUpTo(MaxStrLen)}
    \cup {Str(<<"none (not provided on the DL)">>), Str(<<"Not available">>),
          Str(<<"NULL">>)}

BBox4 == List(<<"10", "10", "50", "50">>)

OtherValues == {None, List(<<>>), EmptyDict, Num("180"), Bool("true"), BBox4}

\* values tried for height
HeightValues == TextValues \cup OtherValues

\* values tried for the other fields
BasicValues == SENTINELS \cup {Str(<<"x">>)} \cup OtherValues

\* raw extractions of the harness: at most MaxPresent fields present, height
\* with any of HeightValues, the other present fields with one of BasicValues
RawExtractions ==
    {[k \in P |-> IF k = "height" THEN h ELSE b] :
        P \in {Q \in SUBSET FIELDS : Cardinality(Q) <= MaxPresent},
        h \in HeightValues, b \in BasicValues}

NoFile == [kind |-> "none", header |-> <<>>, body |-> EmptyRec]

mainIdle ==
    /\ pc = "idle"
    /\ dir_entries = <<>>
    /\ max_workers = 1
    /\ face_dir = FALSE
    /\ image_files = <<>>
    /\ encoded_results = <<>>
    /\ future = EmptyRec
    /\ response = EmptyRec
    /\ crop_env = EmptyRec
    /\ ret = EmptyRec
    /\ output_data = EmptyRec
    /\ face_crops = {}
    /\ processed = -1
    /\ encoded = EmptyRec
    /\ submits = EmptyRec
    /\ requests = EmptyRec
    /\ output_format = ""
    /\ output_file = NoFile
    /\ message = ""

InitNorm ==
    /\ mainIdle
    /\ raw \in RawExtractions
    /\ norm = raw
    /\ prev = raw
    /\ napplied = 0
    /\ nexc = ""

\* lines 71-73 on the parsed response
NormalizeOnce ==
    /\ napplied = 0
    /\ LET n == Normalize(norm) IN
        /\ nexc' = n.exc
        /\ norm' = n.parsed
    /\ prev' = norm
    /\ napplied' = 1
    /\ UNCHANGED <<raw, mainVars>>

\* lines 71-73 on an already normalized record
NormalizeAgain ==
    /\ napplied = 1
    /\ nexc = ""
    /\ LET n == Normalize(norm) IN
        /\ nexc' = n.exc
        /\ norm' = n.parsed
    /\ prev' = norm
    /\ napplied' = 2
    /\ UNCHANGED <<raw, mainVars>>

NextNorm == NormalizeOnce \/ NormalizeAgain

SpecNorm == InitNorm /\ [][NextNorm]_vars

----------------------------------------------------------------------------
(* File names: a name is the sequence of its tokens, "." being one token *)

DirOrder ==
    << <<"a", ".", "png">>, <<"a", ".", "jpg">>, <<"b", ".", "JPEG">>,
       <<".", "png">>, <<"b", ".", "txt">> >>

Range(s) == {s[i] : i \in 1..Len(s)}

\* str.lower() on one token
Lower(tok) ==
    CASE tok = "PNG" -> "png"
      [] tok = "JPG" -> "jpg"
      [] tok = "JPEG" -> "jpeg"
      [] tok = "CSV" -> "csv"
      [] OTHER -> tok

LowerName(f) == [i \in 1..Len(f) |-> Lower(f[i])]

EndsWith(f, suffix) ==
    /\ Len(f) >= Len(suffix)
    /\ SubSeq(f, Len(f) - Len(suffix) + 1, Len(f)) = suffix

\* f.lower().endswith((".png", ".jpg", ".jpeg"))
IsImageFile(f) ==
    \E ext \in {"png", "jpg", "jpeg"} : EndsWith(LowerName(f), <<".", ext>>)

LastDot(p) ==
    IF \E i \in 1..Len(p) : p[i] = "."
    THEN CHOOSE i \in 1..Len(p) :
            p[i] = "." /\ \A j \in (i + 1)..Len(p) : p[j] # "."
    ELSE 0

\* os.path.splitext: split at the last dot unless only dots precede it
splitext(p) ==
    LET d == LastDot(p) IN
    IF d > 0 /\ \E i \in 1..(d - 1) : p[i] # "."
    THEN <<SubSeq(p, 1, d - 1), SubSeq(p, d, Len(p))>>
    ELSE <<p, <<>> >>

\* the crop path with the whole file name kept
face_crop_path_fullname(filename) == filename \o <<"_face.png">>

\* f"{os.path.splitext(filename)[0]}_face.png" inside args.face_dir
face_crop_path(filename) == splitext(filename)[1] \o <<"_face.png">>

\* encode_image: the name and the data URI of the file's bytes
encode_image(filename) == <<filename, <<"data:image/png;base64,">> \o filename>>

----------------------------------------------------------------------------
(* The inference call and the crop step as the worker sees them *)

NumTokens == {"10", "50", "180"}

BBoxBad == List(<<"10", "10", "50", "null">>)

REQUIRED == {"ID_type", "name", "dob", "altered"}

\* a complete answer: quoted height, a sentinel weight, a 4-element box
R_full ==
    [k \in FIELDS |->
        CASE k = "altered" -> Bool("false")
          [] k = "face_bbox" -> BBox4
          [] k = "height" -> Str(<<DQUOTE, "x", DQUOTE>>)
          [] k = "weight" -> Str(<<"N/A">>)
          [] OTHER -> Str(<<"x">>)]

\* an answer with the required properties only
R_partial ==
    [k \in REQUIRED |-> IF k = "altered" THEN Bool("true") ELSE Str(<<"x">>)]

\* an answer whose height is a number
R_numheight ==
    [k \in REQUIRED \cup {"height"} |->
        CASE k = "altered" -> Bool("true")
          [] k = "height" -> Num("180")
          [] OTHER -> Str(<<"x">>)]

\* an answer whose box has an element that int() rejects
R_badbbox ==
    [k \in REQUIRED \cup {"face_bbox"} |->
        CASE k = "altered" -> Bool("true")
          [] k = "face_bbox" -> BBoxBad
          [] OTHER -> Str(<<"x">>)]

\* an answer whose box has two elements
R_shortbbox ==
    [k \in REQUIRED \cup {"face_bbox"} |->
        CASE k = "altered" -> Bool("true")
          [] k = "face_bbox" -> List(<<"10", "10">>)
          [] OTHER -> Str(<<"x">>)]

\* an answer whose box is the empty list, a sentinel
R_emptybbox ==
    [k \in REQUIRED \cup {"face_bbox"} |->
        CASE k = "altered" -> Bool("true")
          [] k = "face_bbox" -> List(<<>>)
          [] OTHER -> Str(<<"x">>)]

SampleResponses ==
    {R_full, R_partial, R_numheight, R_badbbox, R_shortbbox, R_emptybbox}

\* what lines 25-68 can give: the call raises, the content is not JSON, or
\* a parsed object
InferenceOutcomes ==
    {[kind |-> "error", raw |-> EmptyRec], [kind |-> "badjson", raw |-> EmptyRec]}
    \cup {[kind |-> "ok", raw |-> r] : r \in SampleResponses}

\* the response schema of lines 47-65
SchemaConforming(r) ==
    /\ REQUIRED \subseteq DOMAIN r
    /\ DOMAIN r \subseteq FIELDS
    /\ \A k \in DOMAIN r :
        CASE k = "altered" -> r[k].t = "bool"
          [] k = "face_bbox" ->
                r[k].t = "list" /\ \A i \in 1..Len(r[k].v) : r[k].v[i] \in NumTokens
          [] OTHER -> r[k].t = "str"

\* bool(value)
Truthy(val) ==
    CASE val.t = "null" -> FALSE
      [] val.t = "bool" -> val.v = <<"true">>
      [] val.t = "num" -> val.v # <<"0">>
      [] OTHER -> val.v # <<>>

CharLen(tok) ==
    CASE tok = "N/A" -> 3
      [] tok = "na" -> 2
      [] tok = "NULL" -> 4
      [] tok = "Not available" -> 13
      [] tok = "none (not provided on the DL)" -> 29
      [] OTHER -> 1

RECURSIVE SumLen(_)
SumLen(s) == IF s = <<>> THEN 0 ELSE CharLen(Head(s)) + SumLen(Tail(s))

\* len(value), for the values that have a length
PyLen(val) == IF val.t = "str" THEN SumLen(val.v) ELSE Len(val.v)

\* parsed.get("face_bbox")
GetFaceBBox(parsed) ==
    IF "face_bbox" \in DOMAIN parsed THEN parsed["face_bbox"] ELSE None

\* the crop step without the test of the length
CropStep_no_length_test(filename, parsed, env) ==
    LET face_bbox == GetFaceBBox(parsed) IN
    IF ~Truthy(face_bbox) THEN [exc |-> "", crops |-> {}]
    ELSE IF face_bbox.t # "list"
            \/ \E i \in 1..Len(face_bbox.v) : face_bbox.v[i] \notin NumTokens
         THEN [exc |-> "ValueError", crops |-> {}]
    ELSE IF env = "open_fails" THEN [exc |-> "FileNotFoundError", crops |-> {}]
    ELSE IF env = "save_fails" THEN [exc |-> "OSError", crops |-> {}]
    ELSE [exc |-> "", crops |-> {face_crop_path(filename)}]

\* lines 76-84: the exception raised, if any, and the crop files written
CropStep(filename, parsed, env) ==
    LET face_bbox == GetFaceBBox(parsed) IN
    IF ~Truthy(face_bbox) THEN [exc |-> "", crops |-> {}]
    ELSE IF face_bbox.t \in {"num", "bool"} THEN [exc |-> "TypeError", crops |-> {}]
    ELSE IF PyLen(face_bbox) # 4 THEN [exc |-> "", crops |-> {}]
    ELSE IF face_bbox.t # "list"
            \/ \E i \in 1..4 : face_bbox.v[i] \notin NumTokens
         THEN [exc |-> "ValueError", crops |-> {}]
    ELSE IF env = "open_fails" THEN [exc |-> "FileNotFoundError", crops |-> {}]
    ELSE IF env = "save_fails" THEN [exc |-> "OSError", crops |-> {}]
    ELSE [exc |-> "", crops |-> {face_crop_path(filename)}]

\* lines 25-86, the body of the try: the exception raised ("" if none), the
\* record reached and the crop files written
TryBody(filename, inf, env, fd) ==
    IF inf.kind = "error"
    THEN [exc |-> "InferenceError", parsed |-> EmptyRec, crops |-> {}]
    ELSE IF inf.kind = "badjson"
    THEN [exc |-> "JSONDecodeError", parsed |-> EmptyRec, crops |-> {}]
    ELSE LET n == Normalize(inf.raw) IN
         IF n.exc # "" THEN [exc |-> n.exc, parsed |-> n.parsed, crops |-> {}]
         ELSE IF ~fd THEN [exc |-> "", parsed |-> n.parsed, crops |-> {}]
         ELSE LET c == CropStep(filename, n.parsed, env) IN
              [exc |-> c.exc, parsed |-> n.parsed, crops |-> c.crops]

FailureRecord(msg) == [error |-> Str(<<msg>>)]

IsFailureRecord(r) == DOMAIN r = {"error"}

\* process_image whose except clause covers the inference call and the
\* parsing only
process_image_narrow_except(filename, inf, env, fd) ==
    LET b == TryBody(filename, inf, env, fd) IN
    IF b.exc = ""
    THEN [filename |-> filename, result |-> b.parsed, raised |-> FALSE,
          crops |-> b.crops]
    ELSE [filename |-> filename, result |-> FailureRecord(b.exc),
          raised |-> b.exc \notin {"InferenceError", "JSONDecodeError"},
          crops |-> b.crops]

\* process_image returning the name without its extension
process_image_stem_key(filename, inf, env, fd) ==
    LET b == TryBody(filename, inf, env, fd) IN
    [filename |-> splitext(filename)[1],
     result |-> IF b.exc = "" THEN b.parsed ELSE FailureRecord(b.exc),
     raised |-> FALSE, crops |-> b.crops]

\* process_image: return filename, parsed; except Exception as e: return
\* filename, {"error": str(e)}
process_image(filename, inf, env, fd) ==
    LET b == TryBody(filename, inf, env, fd) IN
    IF b.exc = ""
    THEN [filename |-> filename, result |-> b.parsed, raised |-> FALSE,
          crops |-> b.crops]
    ELSE [filename |-> filename, result |-> FailureRecord(b.exc),
          raised |-> FALSE, crops |-> b.crops]

\* the worker reaches Image.open
CropAttempted(inf, fd) ==
    /\ fd
    /\ inf.kind = "ok"
    /\ Normalize(inf.raw).exc = ""
    /\ LET b == GetFaceBBox(Normalize(inf.raw).parsed) IN
        /\ Truthy(b)
        /\ b.t = "list"
        /\ Len(b.v) = 4
        /\ \A i \in 1..4 : b.v[i] \in NumTokens

CropOutcomes(inf, fd) ==
    IF CropAttempted(inf, fd) THEN {"ok", "open_fails", "save_fails"}
    ELSE {"unused"}

----------------------------------------------------------------------------
(* main *)

normIdle ==
    /\ raw = EmptyRec
    /\ norm = EmptyRec
    /\ prev = EmptyRec
    /\ napplied = 0
    /\ nexc = ""

Init ==
    /\ pc = "start"
    /\ dir_entries \in
          {SelectSeq(DirOrder, LAMBDA f : f \in S) :
              S \in {T \in SUBSET Range(DirOrder) : Cardinality(T) <= MaxFiles}}
    /\ max_workers \in -1..MaxWorkers
    /\ face_dir \in BOOLEAN
    /\ image_files = <<>>
    /\ encoded_results = <<>>
    /\ future = EmptyRec
    /\ response = EmptyRec
    /\ crop_env = EmptyRec
    /\ ret = EmptyRec
    /\ output_data = EmptyRec
    /\ face_crops = {}
    /\ processed = -1
    /\ encoded = EmptyRec
    /\ submits = EmptyRec
    /\ requests = EmptyRec
    /\ output_format = ""
    /\ output_file = NoFile
    /\ message = ""
    /\ normIdle

Put(f, key, val) ==
    [k \in DOMAIN f \cup {key} |-> IF k = key THEN val ELSE f[k]]

\* lines 94-100
ListImages ==
    /\ pc = "start"
    /\ image_files' = SelectSeq(dir_entries, IsImageFile)
    /\ pc' = "encode"
    /\ UNCHANGED <<dir_entries, max_workers, face_dir, encoded_results, future,
                   response, crop_env, ret, output_data, face_crops, processed,
                   encoded, submits, requests, exportVars, normVars>>

\* lines 11-15 in a thread of the first pool: the file is read and encoded,
\* or open/read raises
EncodeOne(f) ==
    /\ pc = "encode"
    /\ f \in Range(image_files)
    /\ f \notin DOMAIN encoded
    /\ \E outcome \in {"ok", "fail"} : encoded' = Put(encoded, f, outcome)
    /\ UNCHANGED <<pc, dir_entries, max_workers, face_dir, image_files,
                   encoded_results, future, response, crop_env, ret,
                   output_data, face_crops, processed, submits, requests,
                   exportVars, normVars>>

\* every image was encoded
AllEncoded ==
    \A f \in Range(image_files) : f \in DOMAIN encoded /\ encoded[f] = "ok"

\* the files that could not be read are left out and the run goes on
EncodeImages_skip_unreadable ==
    /\ pc = "encode"
    /\ \A f \in Range(image_files) : f \in DOMAIN encoded
    /\ encoded_results' =
          LET readable == SelectSeq(image_files, LAMBDA f : encoded[f] = "ok")
          IN  [i \in 1..Len(readable) |-> encode_image(readable[i])]
    /\ pc' = "pool"
    /\ UNCHANGED <<dir_entries, max_workers, face_dir, image_files, future,
                   response, crop_env, ret, output_data, face_crops, processed,
                   encoded, submits, requests, exportVars, normVars>>

\* lines 102-107: list(executor.map(...)) gives the pairs in the order of
\* image_files, or re-raises the exception of a file that could not be read
EncodeImages ==
    /\ pc = "encode"
    /\ \/ /\ AllEncoded
          /\ encoded_results' =
                 [i \in 1..Len(image_files) |-> encode_image(image_files[i])]
          /\ pc' = "pool"
       \/ /\ \E f \in DOMAIN encoded : encoded[f] = "fail"
          /\ pc' = "aborted"
          /\ UNCHANGED encoded_results
    /\ UNCHANGED <<dir_entries, max_workers, face_dir, image_files, future,
                   response, crop_env, ret, output_data, face_crops, processed,
                   encoded, submits, requests, exportVars, normVars>>

\* lines 109-111: ThreadPoolExecutor(max_workers=...) raises ValueError
\* unless max_workers > 0
CreatePool ==
    /\ pc = "pool"
    /\ pc' = IF max_workers <= 0 THEN "aborted"
             ELSE IF Len(encoded_results) = 0 THEN "collect" ELSE "submit"
    /\ UNCHANGED <<dir_entries, max_workers, face_dir, image_files,
                   encoded_results, future, response, crop_env, ret,
                   output_data, face_crops, processed, encoded, submits,
                   requests, exportVars, normVars>>

Count(f, key) == IF key \in DOMAIN f THEN f[key] ELSE 0

\* lines 112-115: the next executor.submit of the comprehension
Submit ==
    /\ pc = "submit"
    /\ LET i == Cardinality(DOMAIN future) + 1 IN
        /\ i <= Len(encoded_results)
        /\ future' = Put(future, encoded_results[i][1], "queued")
        /\ submits' = Put(submits, encoded_results[i][1],
                          Count(submits, encoded_results[i][1]) + 1)
        /\ pc' = IF i = Len(encoded_results) THEN "collect" ELSE "submit"
    /\ UNCHANGED <<dir_entries, max_workers, face_dir, image_files,
                   encoded_results, response, crop_env, ret, output_data,
                   face_crops, processed, encoded, requests, exportVars,
                   normVars>>

Running == {f \in DOMAIN future : future[f] = "running"}

\* a pool without a limit
CanStartWorker_unbounded == TRUE

\* a pool that keeps one thread idle
CanStartWorker_one_less == Cardinality(Running) < max_workers - 1

\* the pool runs a queued call only while fewer than max_workers run
CanStartWorker == Cardinality(Running) < max_workers

\* the work queue is first in, first out
FirstQueued(f) ==
    \E i \in 1..Len(encoded_results) :
        /\ encoded_results[i][1] = f
        /\ f \in DOMAIN future
        /\ future[f] = "queued"
        /\ \A j \in 1..(i - 1) :
              encoded_results[j][1] \in DOMAIN future
              => future[encoded_results[j][1]] # "queued"

\* a pool thread takes the call for f off the queue and enters process_image
StartWorker(f) ==
    /\ FirstQueued(f)
    /\ CanStartWorker
    /\ future' = [future EXCEPT ![f] = "running"]
    /\ UNCHANGED <<pc, dir_entries, max_workers, face_dir, image_files,
                   encoded_results, response, crop_env, ret, output_data,
                   face_crops, processed, encoded, submits, requests,
                   exportVars, normVars>>

\* one more request after a failed one
InferenceCalls_retry(inf) == IF inf.kind = "error" THEN 2 ELSE 1

\* line 25 is the only request of process_image and is in no loop
InferenceCalls(inf) == 1

\* a worker that inserts its own result into output_data
WorkerReturn_inserts(f) ==
    /\ f \in DOMAIN future
    /\ future[f] = "running"
    /\ \E inf \in InferenceOutcomes :
        \E env \in CropOutcomes(inf, face_dir) :
            LET r == process_image(f, inf, env, face_dir) IN
            /\ response' = Put(response, f, inf)
            /\ crop_env' = Put(crop_env, f, env)
            /\ ret' = Put(ret, f, r)
            /\ face_crops' =
                 face_crops \cup {[path |-> p, source |-> f] : p \in r.crops}
            /\ requests' = Put(requests, f, Count(requests, f) + 1)
            /\ output_data' = Put(output_data, r.filename, r.result)
    /\ future' = [future EXCEPT ![f] = "done"]
    /\ UNCHANGED <<pc, dir_entries, max_workers, face_dir, image_files,
                   encoded_results, processed, encoded, submits, exportVars,
                   normVars>>

\* process_image runs from the inference call to its return
WorkerReturn(f) ==
    /\ f \in DOMAIN future
    /\ future[f] = "running"
    /\ \E inf \in InferenceOutcomes :
        \E env \in CropOutcomes(inf, face_dir) :
            LET r == process_image(f, inf, env, face_dir) IN
            /\ response' = Put(response, f, inf)
            /\ crop_env' = Put(crop_env, f, env)
            /\ ret' = Put(ret, f, r)
            /\ face_crops' =
                 face_crops \cup {[path |-> p, source |-> f] : p \in r.crops}
            /\ requests' =
                 Put(requests, f, Count(requests, f) + InferenceCalls(inf))
    /\ future' = [future EXCEPT ![f] = "done"]
    /\ UNCHANGED <<pc, dir_entries, max_workers, face_dir, image_files,
                   encoded_results, output_data, processed, encoded, submits,
                   exportVars, normVars>>

\* lines 116-118: as_completed yields a finished future; future.result()
\* re-raises what the call raised
Collect(f) ==
    /\ pc = "collect"
    /\ f \in DOMAIN future
    /\ future[f] = "done"
    /\ IF ret[f].raised
       THEN /\ pc' = "aborted"
            /\ UNCHANGED output_data
       ELSE /\ output_data' = Put(output_data, ret[f].filename, ret[f].result)
            /\ pc' = pc
    /\ future' = [future EXCEPT ![f] = "collected"]
    /\ UNCHANGED <<dir_entries, max_workers, face_dir, image_files,
                   encoded_results, response, crop_env, ret, face_crops,
                   processed, encoded, submits, requests, exportVars,
                   normVars>>

\* the loop would stop at the first FailureRecord
ExtractionComplete_stop_on_failure ==
    \/ \A f \in DOMAIN future : future[f] = "collected"
    \/ \E k \in DOMAIN output_data : IsFailureRecord(output_data[k])

\* as_completed is exhausted: every future has been yielded
ExtractionComplete == \A f \in DOMAIN future : future[f] = "collected"

\* the end of the with block and lines 120-121, the summary line
FinishExtraction ==
    /\ pc = "collect"
    /\ ExtractionComplete
    /\ processed' = Cardinality(DOMAIN output_data)
    /\ pc' = "export"
    /\ UNCHANGED <<dir_entries, max_workers, face_dir, image_files,
                   encoded_results, future, response, crop_env, ret,
                   output_data, face_crops, encoded, submits, requests,
                   exportVars, normVars>>

----------------------------------------------------------------------------
(* Export, lines 124-157 *)

OutputFormats == {"json", "txt", "csv", "CSV", "xml"}

\* str() of an element of a list
ElemStr(tok) == IF tok = "null" THEN "None" ELSE tok

RECURSIVE JoinElems(_)
JoinElems(s) ==
    IF s = <<>> THEN <<>>
    ELSE IF Len(s) = 1 THEN <<ElemStr(s[1])>>
    ELSE <<ElemStr(s[1]), ", ">> \o JoinElems(Tail(s))

\* str(value)
PyStr(val) ==
    CASE val.t = "str" -> val.v
      [] val.t = "null" -> <<"None">>
      [] val.t = "bool" -> IF val.v = <<"true">> THEN <<"True">> ELSE <<"False">>
      [] val.t = "num" -> val.v
      [] val.t = "dict" -> <<"{}">>
      [] val.t = "list" -> <<"[">> \o JoinElems(val.v) \o <<"]">>

\* line 141-144
all_fields ==
    <<"filename", "ID_type", "dl_number", "expiry", "name", "dob", "address",
      "sex", "height", "weight", "hair", "eyes", "face_bbox">>

\* a row that shows the error text in the first data column
CsvRow_error_text(filename, data) ==
    [col \in Range(all_fields) |->
        IF col = "filename" THEN filename
        ELSE IF col \in DOMAIN data THEN PyStr(data[col])
        ELSE IF col = "ID_type" /\ "error" \in DOMAIN data
             THEN PyStr(data["error"])
        ELSE <<>>]

\* lines 149-151: row = {"filename": filename} updated with
\* str(data.get(k, "")) for every other column; both kinds of record are
\* dicts, so the branch of line 153 is never taken
CsvRow(filename, data) ==
    [col \in Range(all_fields) |->
        IF col = "filename" THEN filename
        ELSE IF col \in DOMAIN data THEN PyStr(data[col])
        ELSE <<>>]

\* lines 132-136: per record the lines "  key: value"
TxtLines(data) == [key \in DOMAIN data |-> PyStr(data[key])]

\* an unknown format falls back to json
FormatBranch_default_json(fmt) ==
    IF Lower(fmt) \in {"txt", "csv"} THEN Lower(fmt) ELSE "json"

\* the if/elif chain of lines 125, 130, 139, 156 on output_format.lower()
FormatBranch(fmt) ==
    IF Lower(fmt) \in {"json", "txt", "csv"} THEN Lower(fmt) ELSE "unsupported"

\* what the branch writes to args.output_path
Render(branch, data) ==
    CASE branch = "json" -> [kind |-> "json", header |-> <<>>, body |-> data]
      [] branch = "txt" ->
            [kind |-> "txt", header |-> <<>>,
             body |-> [k \in DOMAIN data |-> TxtLines(data[k])]]
      [] branch = "csv" ->
            [kind |-> "csv", header |-> all_fields,
             body |-> [k \in DOMAIN data |-> CsvRow(k, data[k])]]

\* lines 124-157: the result file is written and a line printed; open() may
\* raise; an unsupported format only prints
Export ==
    /\ pc = "export"
    /\ \E fmt \in OutputFormats, writable \in BOOLEAN :
        /\ output_format' = fmt
        /\ IF FormatBranch(fmt) = "unsupported"
           THEN /\ message' = "not supported"
                /\ pc' = "done"
                /\ UNCHANGED output_file
           ELSE IF ~writable
           THEN /\ pc' = "aborted"
                /\ UNCHANGED <<output_file, message>>
           ELSE /\ output_file' = Render(FormatBranch(fmt), output_data)
                /\ message' = "saved"
                /\ pc' = "done"
    /\ UNCHANGED <<dir_entries, max_workers, face_dir, image_files,
                   encoded_results, future, response, crop_env, ret,
                   output_data, face_crops, processed, encoded, submits,
                   requests, normVars>>

Next ==
    \/ ListImages
    \/ \E f \in Range(DirOrder) : EncodeOne(f)
    \/ EncodeImages
    \/ CreatePool
    \/ Submit
    \/ \E f \in Range(DirOrder) : StartWorker(f)
    \/ \E f \in Range(DirOrder) : WorkerReturn(f)
    \/ \E f \in Range(DirOrder) : Collect(f)
    \/ FinishExtraction
    \/ Export

Spec == Init /\ [][Next]_vars

\* the steps of the main thread from the creation of the pool to the summary
MainStep ==
    \/ CreatePool
    \/ Submit
    \/ \E f \in Range(DirOrder) : Collect(f)
    \/ FinishExtraction

\* the main thread keeps running, every pool thread is scheduled and every
\* inference call returns or fails
FairSpec ==
    /\ Spec
    /\ WF_vars(MainStep)
    /\ \A f \in Range(DirOrder) :
          WF_vars(StartWorker(f)) /\ WF_vars(WorkerReturn(f))

----------------------------------------------------------------------------
(* Properties of the normalization step (checked under SpecNorm) *)

\* C6: every record that normalization yields without raising holds each of
\* the 13 fixed fields, and each field the raw extraction omitted is "na".
C6_CanonicalCompleteness ==
    (napplied = 1 /\ nexc = "") =>
        /\ FIELDS \subseteq DOMAIN norm
        /\ \A k \in FIELDS \ DOMAIN raw : norm[k] = NA

NoQuoteNoMargin(s) ==
    /\ \A i \in 1..Len(s) : s[i] # DQUOTE
    /\ s # <<>> => (s[1] # SP /\ s[Len(s)] # SP)

Inner(s) == SelectSeq(s, LAMBDA c : c \notin {DQUOTE, SP})

C8_Idempotence == (napplied = 2 /\ nexc = "") => norm = prev

----------------------------------------------------------------------------
(* Properties of the extraction phase (checked under Spec) *)

ImageSet == Range(image_files)

Failures == {k \in DOMAIN output_data : IsFailureRecord(output_data[k])}

\* C1: when the extraction phase has finished, output_data has as many
\* entries as there are input images and its keys are the input file names.
C1_Cardinality ==
    pc = "export" =>
        /\ Cardinality(DOMAIN output_data) = Len(image_files)
        /\ DOMAIN output_data = ImageSet

\* a batch of at least two images finished with max_workers within 1..N
C1_Witness ==
    /\ pc = "export"
    /\ Len(image_files) >= 2
    /\ max_workers \in 1..Len(image_files)
    /\ Cardinality(DOMAIN output_data) = Len(image_files)

\* the answer conforms to the response schema
WellFormed(inf) == inf.kind = "ok" /\ SchemaConforming(inf.raw)

\* C2: when exactly one worker met an inference failure and every other got
\* a well-formed response, the finished output_data holds one FailureRecord,
\* under the failing file's name, and a successful record for every other.
C2_Isolation ==
    (/\ pc = "export"
     /\ Cardinality({f \in DOMAIN response : response[f].kind = "error"}) = 1
     /\ \A f \in DOMAIN response :
           response[f].kind # "error" => WellFormed(response[f]))
    => /\ Cardinality(Failures) = 1
       /\ \A f \in Failures : response[f].kind = "error"

\* C3: every process_image call that has returned did not raise, returned
\* the file name it was given, and returned either a FailureRecord or the
\* normalized record of its response, never both and never neither.
C3_NeverRaises ==
    \A f \in DOMAIN ret :
        /\ ~ret[f].raised
        /\ ret[f].filename = f
        /\ LET isNorm ==
                 /\ response[f].kind = "ok"
                 /\ Normalize(response[f].raw).exc = ""
                 /\ ret[f].result = Normalize(response[f].raw).parsed
           IN  IsFailureRecord(ret[f].result) # isNorm

\* one call has returned after a failure behind a parsed response (in the
\* normalization or the crop step) and another after a success
C3_Witness ==
    /\ \E f \in DOMAIN ret :
          response[f].kind = "ok" /\ IsFailureRecord(ret[f].result)
    /\ \E f \in DOMAIN ret : ~IsFailureRecord(ret[f].result)

\* C4: the number of process_image calls that have started and not returned
\* never exceeds max_workers.
C4_BoundedParallelism == Running # {} => Cardinality(Running) <= max_workers

\* the pool is full while a submitted call waits in the queue
C4_Witness ==
    /\ Cardinality(Running) = max_workers
    /\ \E f \in DOMAIN future : future[f] = "queued"

\* C5: main is past the extraction phase only when a call was submitted for
\* every image, each has returned, and each result is in output_data; the
\* summary line counts them all.
C5_NoEarlyExit ==
    pc = "export" =>
        /\ \A f \in ImageSet :
              /\ f \in DOMAIN future
              /\ future[f] = "collected"
              /\ f \in DOMAIN ret
              /\ ret[f].filename \in DOMAIN output_data
              /\ output_data[ret[f].filename] = ret[f].result
        /\ processed = Len(image_files)

\* the phase ended with a FailureRecord and a successful record collected
C5_Witness ==
    /\ pc = "export"
    /\ Failures # {}
    /\ \E k \in DOMAIN output_data : ~IsFailureRecord(output_data[k])

\* the crop step of f failed: the image could not be opened, a box element
\* was not convertible, or the save failed
CropFailed(f) ==
    \/ crop_env[f] \in {"open_fails", "save_fails"}
    \/ LET b == GetFaceBBox(Normalize(response[f].raw).parsed) IN
          /\ b.t = "list"
          /\ Len(b.v) = 4
          /\ \E i \in 1..4 : b.v[i] \notin NumTokens

\* C9: with a face directory configured, a call whose response parsed and
\* normalized and whose crop step failed returns the normalized record.
C9_CropFailureSwallowed ==
    \A f \in DOMAIN ret :
        (/\ face_dir
         /\ response[f].kind = "ok"
         /\ Normalize(response[f].raw).exc = ""
         /\ CropFailed(f))
        => ret[f].result = Normalize(response[f].raw).parsed

\* C10: crop files written for distinct source files have distinct paths.
C10_CropPathsInjective ==
    \A c, d \in face_crops : c.source # d.source => c.path # d.path

----------------------------------------------------------------------------
(* Properties of the whole run (checked under Spec, C19 under FairSpec) *)

\* C11: a step never removes or changes an entry of output_data, and the
\* step that collects a future inserts a key that was not there before.
C11_WriteOnce ==
    [][/\ \A k \in DOMAIN output_data :
             k \in DOMAIN output_data' /\ output_data'[k] = output_data[k]
       /\ \A f \in DOMAIN future :
             (future[f] = "done" /\ future'[f] = "collected" /\ pc' # "aborted")
             => /\ ret[f].filename \notin DOMAIN output_data
                /\ ret[f].filename \in DOMAIN output_data'
                /\ Cardinality(DOMAIN output_data') =
                      Cardinality(DOMAIN output_data) + 1]_vars

\* the export has run over at least two collected results
C11_Witness ==
    /\ pc = "done"
    /\ output_file.kind = "txt"
    /\ Cardinality(DOMAIN output_data) >= 2

\* C12: a csv file has the header and one data row per entry of
\* output_data, as many as there are input files, each under its file name,
\* and the row of a FailureRecord has every other column empty.
C12_CsvExport ==
    output_file.kind = "csv" =>
        /\ output_file.header = all_fields
        /\ DOMAIN output_file.body = DOMAIN output_data
        /\ Cardinality(DOMAIN output_file.body) = Len(image_files)
        /\ \A k \in DOMAIN output_file.body :
              /\ output_file.body[k]["filename"] = k
              /\ IsFailureRecord(output_data[k]) =>
                    \A col \in Range(all_fields) \ {"filename"} :
                        output_file.body[k][col] = <<>>

\* a csv file was written for a FailureRecord and a successful record
C12_Witness ==
    /\ output_file.kind = "csv"
    /\ \E k \in DOMAIN output_data : IsFailureRecord(output_data[k])
    /\ \E k \in DOMAIN output_data :
          ~IsFailureRecord(output_data[k])
          /\ output_file.body[k]["name"] = <<"x">>

\* C13: with max_workers of 0 or less no image is ever encoded and no
\* worker is ever dispatched.
C13_RejectedEarly ==
    max_workers <= 0 =>
        /\ DOMAIN encoded = {}
        /\ encoded_results = <<>>
        /\ DOMAIN future = {}

EncodeFailed == \E f \in DOMAIN encoded : encoded[f] = "fail"

\* C14: once an encode_image has failed, main is still in the encode phase
\* or has aborted, no process_image was dispatched, no request was issued
\* and no result file was written; a call is dispatched only when every
\* image has been encoded.
C14_EncodeFatal ==
    /\ EncodeFailed =>
          /\ pc \in {"encode", "aborted"}
          /\ DOMAIN future = {}
          /\ DOMAIN requests = {}
          /\ output_file = NoFile
    /\ DOMAIN future # {} =>
          /\ \A f \in Range(image_files) :
                f \in DOMAIN encoded /\ encoded[f] = "ok"
          /\ Len(encoded_results) = Len(image_files)

\* the run has aborted after one file was encoded and another failed
C14_Witness ==
    /\ pc = "aborted"
    /\ EncodeFailed
    /\ \E f \in DOMAIN encoded : encoded[f] = "ok"

\* C15: after the export step has read a format that is none of json, txt
\* and csv in any case, main is done without raising, no file was written,
\* the message was printed and every item had been collected; "CSV" counts
\* as csv.
C15_UnsupportedFormat ==
    /\ (output_format # "" /\ Lower(output_format) \notin {"json", "txt", "csv"})
       => /\ pc = "done"
          /\ output_file = NoFile
          /\ message = "not supported"
          /\ processed = Len(image_files)
          /\ \A f \in Range(image_files) :
                f \in DOMAIN future /\ future[f] = "collected"
    /\ (output_format = "CSV" /\ pc = "done") => output_file.kind = "csv"

\* the format xml was read after a batch with results
C15_Witness ==
    /\ output_format = "xml"
    /\ pc = "done"
    /\ DOMAIN output_data # {}

\* C16: output_data changes only in a step of main's collecting loop, which
\* takes one finished future and inserts exactly its returned pair; a step
\* of a worker never changes it; every collected result is in it.
C16_SerializedAggregation ==
    [][/\ output_data' # output_data =>
             /\ pc = "collect"
             /\ ret' = ret
             /\ \E f \in DOMAIN future :
                   /\ future[f] = "done"
                   /\ future' = [future EXCEPT ![f] = "collected"]
                   /\ output_data' =
                         Put(output_data, ret[f].filename, ret[f].result)
       /\ \A f \in DOMAIN future' :
             (future'[f] = "collected" /\ pc' # "aborted")
             => /\ f \in DOMAIN output_data'
                /\ output_data'[f] = ret'[f].result]_vars

\* two calls have completed and both wait for the collecting loop
C16_Witness ==
    /\ pc = "collect"
    /\ Cardinality({f \in DOMAIN future : future[f] = "done"}) >= 2

\* C17: no file is submitted twice, no file has more than one inference
\* request, a future that has completed never runs or waits again, and at
\* the end of the extraction every image has exactly one of each.
C17_NoRetries ==
    [][/\ \A f \in DOMAIN submits' : submits'[f] = 1
       /\ \A f \in DOMAIN requests' : requests'[f] = 1
       /\ \A f \in DOMAIN future :
             future[f] \in {"done", "collected"}
             => future'[f] \in {"done", "collected"}
       /\ pc' \in {"export", "done"} =>
             \A f \in Range(image_files') :
                 Count(submits', f) = 1 /\ Count(requests', f) = 1]_vars

\* the extraction ended with an item whose inference call had failed
C17_Witness ==
    /\ pc = "export"
    /\ \E f \in DOMAIN response :
          response[f].kind = "error" /\ requests[f] = 1 /\ submits[f] = 1

NormalizedBBox(f) == GetFaceBBox(Normalize(response[f].raw).parsed)

\* C18: a crop file exists for a file only if a face directory is
\* configured, its response parsed and normalized, and the normalized
\* face_bbox has 4 elements; without a face directory, after a failed call
\* or parse, or with face_bbox missing or rewritten to "na", none exists.
C18_CropGuard ==
    /\ \A c \in face_crops :
          /\ face_dir
          /\ c.source \in DOMAIN ret
          /\ response[c.source].kind = "ok"
          /\ Normalize(response[c.source].raw).exc = ""
          /\ "face_bbox" \in DOMAIN response[c.source].raw
          /\ Len(NormalizedBBox(c.source).v) = 4
    /\ \A f \in DOMAIN ret :
          (\/ ~face_dir
           \/ response[f].kind # "ok"
           \/ "face_bbox" \notin DOMAIN response[f].raw
           \/ NormalizedBBox(f) = Str(<<"na">>))
          => ~\E c \in face_crops : c.source = f

\* a crop was written for one file and none for a file whose box had two
\* elements or was rewritten to "na"
C18_Witness ==
    /\ face_dir
    /\ \E c \in face_crops : response[c.source].raw = R_full
    /\ \E f \in DOMAIN ret :
          /\ response[f].kind = "ok"
          /\ response[f].raw \in {R_shortbbox, R_emptybbox}
          /\ ~\E c \in face_crops : c.source = f

\* C19: once the pool is about to be created with max_workers >= 1, the
\* run reaches the summary line with every image's result in output_data;
\* for the empty batch that is the empty output_data.
C19_Termination ==
    (pc = "pool" /\ max_workers >= 1)
    ~> (/\ processed = Len(image_files)
        /\ DOMAIN output_data = Range(image_files)
        /\ pc \in {"export", "done", "aborted"})

\* a batch in which every item failed has reached the summary line
C19_Witness ==
    /\ processed = Len(image_files)
    /\ Len(image_files) >= 2
    /\ max_workers >= 1
    /\ \A k \in DOMAIN output_data : IsFailureRecord(output_data[k])

====
